---- MODULE Spec2Model ----
(***************************************************************************)
(* Model of scripts/export_moonshine_ar_onnx.py: the export pipeline run   *)
(* by main(), one external call per step, over a file system that outlives *)
(* the process so that several invocations against the same output         *)
(* directory can be followed.                                              *)
(*                                                                         *)
(* Every external call (hub loader, tracer, quantizer, save_pretrained)    *)
(* either returns or raises; which one is chosen nondeterministically.     *)
(* mkdir is the exception: with the flags main() passes it only raises for *)
(* environment faults (a non-directory at the path, permissions) that are  *)
(* outside this model.                                                     *)
(***************************************************************************)
EXTENDS Integers, Sequences, FiniteSets, TLC

\* Number of invocations of the script that are followed.
MaxRuns == 3

VARIABLES
    run,        \* number of the current (or last) invocation, 0 before the first
    argv,       \* what the command line says for --quantize
    prevArgv,   \* the same of the invocation before, "first" when there is none
    args,       \* args.quantize after parse_args()
    pc,         \* position of the process inside main()
    parentDir,  \* state of the parents of --output-dir
    outDir,     \* state of --output-dir itself
    files,      \* content of each file inside --output-dir
    stdout,     \* what the process printed, in order
    calls,      \* the external calls the process made, in order
    raised,     \* the calls that raised an exception (caught or not)
    exits       \* exit codes of the finished invocations, in order

vars == <<run, argv, prevArgv, args, pc, parentDir, outDir, files, stdout, calls, raised, exits>>

----------------------------------------------------------------------------
\* Paths: a file name is the sequence of its parts, the last one the suffix.

encoder_path == <<"encoder", ".onnx">>
decoder_path_same == <<"encoder", ".onnx">>
decoder_path == <<"decoder", ".onnx">>

\* Path.stem: the name without its final suffix.
Stem(path) == SubSeq(path, 1, Len(path) - 1)

\* path.with_name(path.stem + "_int8.onnx")
QPathInPlace(path) == path
QPath(path) == Stem(path) \o <<"_int8", ".onnx">>

\* The files processor.save_pretrained(out_dir) writes.
TokenizerFiles == {<<"tokenizer", ".json">>, <<"preprocessor_config", ".json">>}

GraphFiles == {<<"encoder", ".onnx">>, <<"decoder", ".onnx">>}
Int8Files == {<<"encoder", "_int8", ".onnx">>, <<"decoder", "_int8", ".onnx">>}
FileNames == GraphFiles \cup Int8Files \cup TokenizerFiles

\* A file's content is identified by the invocation that wrote it ("by") and,
\* for a quantized graph, by the content of the float32 file it was computed
\* from ("of", the "by" of that file).  by = 0 is a file that does not exist.
Absent == [by |-> 0, of |-> 0]
Exists(f) == files[f].by # 0

\* Opening a file for writing truncates it: the old content is gone.
WriteFileKeepOld(fs, name, content) ==
    IF fs[name].by # 0 THEN fs ELSE [fs EXCEPT ![name] = content]
WriteFile(fs, name, content) == [fs EXCEPT ![name] = content]

----------------------------------------------------------------------------
\* argparse: --quantize, choices=["int8", None], default="int8".
\* The command line carries strings only: "int8", some other word, or nothing.
ArgvQuantize == {"absent", "int8", "None"}

ParseQuantize(a) ==
    IF a = "absent" THEN "int8"
    ELSE IF a = "int8" THEN "int8"
    ELSE "error"

\* Path.mkdir flags of main().
parents == TRUE
exist_ok_off == FALSE
exist_ok == TRUE

\* Path.mkdir(parents, exist_ok) on a path whose parents are in state p and
\* which itself is in state d.
MkdirResult(par, eok, p, d) ==
    IF d = "dir"
    THEN IF eok THEN [err |-> "none", parent |-> p, dir |-> d]
         ELSE [err |-> "FileExistsError", parent |-> p, dir |-> d]
    ELSE IF p = "absent" /\ ~par
         THEN [err |-> "FileNotFoundError", parent |-> p, dir |-> d]
         ELSE [err |-> "none", parent |-> "dir", dir |-> "dir"]

Msg(m, f) == [msg |-> m, file |-> f]
NoFile == <<>>

\* The process ends with the given exit code.
Terminate(code) ==
    /\ pc' = "done"
    /\ exits' = Append(exits, code)

\* An exception nobody catches: traceback, exit code 1.
Propagate(step) ==
    /\ raised' = raised \cup {step}
    /\ Terminate(1)

----------------------------------------------------------------------------
Init ==
    /\ run = 0
    /\ argv = "absent"
    /\ prevArgv = "first"
    /\ args = "unset"
    /\ pc = "idle"
    /\ parentDir \in {"absent", "dir"}
    /\ outDir \in {"absent", "dir"}
    /\ outDir = "dir" => parentDir = "dir"
    /\ files = [f \in FileNames |-> Absent]
    /\ stdout = <<>>
    /\ calls = <<>>
    /\ raised = {}
    /\ exits = <<>>

\* The operator starts the script (again) against the same output directory.
StartRun ==
    /\ pc \in {"idle", "done"}
    /\ run < MaxRuns
    /\ run' = run + 1
    /\ \E a \in ArgvQuantize : argv' = a
    /\ prevArgv' = IF run = 0 THEN "first" ELSE argv
    /\ args' = "unset"
    /\ pc' = "parse"
    /\ stdout' = <<>>
    /\ calls' = <<>>
    /\ raised' = {}
    /\ UNCHANGED <<parentDir, outDir, files, exits>>

\* parser.parse_args(): an invalid choice ends the process with code 2.
ParseArgs ==
    /\ pc = "parse"
    /\ LET q == ParseQuantize(argv) IN
         IF q = "error"
         THEN /\ Terminate(2)
              /\ UNCHANGED args
         ELSE /\ args' = q
              /\ pc' = "mkdir"
              /\ UNCHANGED exits
    /\ UNCHANGED <<run, argv, prevArgv, parentDir, outDir, files, stdout, calls, raised>>

\* out_dir.mkdir(parents=True, exist_ok=True)
Mkdir ==
    /\ pc = "mkdir"
    /\ calls' = Append(calls, <<"mkdir">>)
    /\ LET r == MkdirResult(parents, exist_ok, parentDir, outDir) IN
         IF r.err = "none"
         THEN /\ parentDir' = r.parent
              /\ outDir' = r.dir
              /\ pc' = "load_processor"
              /\ UNCHANGED <<raised, exits>>
         ELSE /\ Propagate(<<"mkdir">>)
              /\ UNCHANGED <<parentDir, outDir>>
    /\ UNCHANGED <<run, argv, prevArgv, args, files, stdout>>

\* print("Loading processor/model..."); AutoProcessor.from_pretrained(...)
LoadProcessor ==
    /\ pc = "load_processor"
    /\ calls' = Append(calls, <<"load_processor">>)
    /\ stdout' = Append(stdout, Msg("Loading", NoFile))
    /\ \E ok \in BOOLEAN :
         IF ok
         THEN pc' = "load_model" /\ UNCHANGED <<raised, exits>>
         ELSE Propagate(<<"load_processor">>)
    /\ UNCHANGED <<run, argv, prevArgv, args, parentDir, outDir, files>>

\* AutoModelForSpeechSeq2Seq.from_pretrained(...); model.eval()
LoadModel ==
    /\ pc = "load_model"
    /\ calls' = Append(calls, <<"load_model">>)
    /\ \E ok \in BOOLEAN :
         IF ok
         THEN pc' = "sample_inputs" /\ UNCHANGED <<raised, exits>>
         ELSE Propagate(<<"load_model">>)
    /\ UNCHANGED <<run, argv, prevArgv, args, parentDir, outDir, files, stdout>>

\* The dummy audio and processor(audio=..., return_tensors="pt").
SampleInputs ==
    /\ pc = "sample_inputs"
    /\ calls' = Append(calls, <<"sample_inputs">>)
    /\ \E ok \in BOOLEAN :
         IF ok
         THEN pc' = "encoder_run" /\ UNCHANGED <<raised, exits>>
         ELSE Propagate(<<"sample_inputs">>)
    /\ UNCHANGED <<run, argv, prevArgv, args, parentDir, outDir, files, stdout>>

\* print("Running encoder once..."); enc_out = model.model.encoder(...); print shape
EncoderRunSkipsExport ==
    /\ pc = "encoder_run"
    /\ calls' = Append(calls, <<"encoder_run">>)
    /\ \E ok \in BOOLEAN :
         IF ok
         THEN /\ pc' = "export_decoder"
              /\ stdout' = stdout \o <<Msg("RunningEncoder", NoFile), Msg("EncoderShape", NoFile)>>
              /\ UNCHANGED <<raised, exits>>
         ELSE /\ stdout' = Append(stdout, Msg("RunningEncoder", NoFile))
              /\ Propagate(<<"encoder_run">>)
    /\ UNCHANGED <<run, argv, prevArgv, args, parentDir, outDir, files>>
EncoderRun ==
    /\ pc = "encoder_run"
    /\ calls' = Append(calls, <<"encoder_run">>)
    /\ \E ok \in BOOLEAN :
         IF ok
         THEN /\ pc' = "export_encoder"
              /\ stdout' = stdout \o <<Msg("RunningEncoder", NoFile), Msg("EncoderShape", NoFile)>>
              /\ UNCHANGED <<raised, exits>>
         ELSE /\ stdout' = Append(stdout, Msg("RunningEncoder", NoFile))
              /\ Propagate(<<"encoder_run">>)
    /\ UNCHANGED <<run, argv, prevArgv, args, parentDir, outDir, files>>

\* export_encoder(model, sample_inputs, encoder_path): torch.onnx.export traces
\* the wrapper and then writes the graph; a tracing failure writes nothing.
ExportEncoderCaught ==
    /\ pc = "export_encoder"
    /\ calls' = Append(calls, <<"export_encoder">>)
    /\ \E ok \in BOOLEAN :
         IF ok
         THEN /\ files' = WriteFile(files, encoder_path, [by |-> run, of |-> 0])
              /\ stdout' = Append(stdout, Msg("EncoderSaved", encoder_path))
              /\ pc' = "export_decoder"
              /\ UNCHANGED <<raised, exits>>
         ELSE /\ raised' = raised \cup {<<"export_encoder">>}
              /\ pc' = "export_decoder"
              /\ UNCHANGED <<files, stdout, exits>>
    /\ UNCHANGED <<run, argv, prevArgv, args, parentDir, outDir>>
ExportEncoder ==
    /\ pc = "export_encoder"
    /\ calls' = Append(calls, <<"export_encoder">>)
    /\ \E ok \in BOOLEAN :
         IF ok
         THEN /\ files' = WriteFile(files, encoder_path, [by |-> run, of |-> 0])
              /\ stdout' = Append(stdout, Msg("EncoderSaved", encoder_path))
              /\ pc' = "export_decoder"
              /\ UNCHANGED <<raised, exits>>
         ELSE /\ Propagate(<<"export_encoder">>)
              /\ UNCHANGED <<files, stdout>>
    /\ UNCHANGED <<run, argv, prevArgv, args, parentDir, outDir>>

\* export_decoder(model, enc_out, decoder_path), then the test of args.quantize.
ExportDecoder ==
    /\ pc = "export_decoder"
    /\ calls' = Append(calls, <<"export_decoder">>)
    /\ \E ok \in BOOLEAN :
         IF ok
         THEN /\ files' = WriteFile(files, decoder_path, [by |-> run, of |-> 0])
              /\ stdout' = Append(stdout, Msg("DecoderSaved", decoder_path))
              /\ pc' = IF args = "int8" THEN "quant_encoder" ELSE "save"
              /\ UNCHANGED <<raised, exits>>
         ELSE /\ Propagate(<<"export_decoder">>)
              /\ UNCHANGED <<files, stdout>>
    /\ UNCHANGED <<run, argv, prevArgv, args, parentDir, outDir>>

QuantCall(path) == <<"quantize_int8">> \o path

\* quantize_int8(path): quantize_dynamic reads path and writes the sibling;
\* whatever goes wrong inside the try block is caught and reported.
quantize_int8_uncaught(path, next) ==
    /\ calls' = Append(calls, QuantCall(path))
    /\ \E ok \in BOOLEAN :
         IF ok
         THEN /\ files' = WriteFile(files, QPath(path), [by |-> run, of |-> files[path].by])
              /\ stdout' = Append(stdout, Msg("Quantized", QPath(path)))
              /\ pc' = next
              /\ UNCHANGED <<raised, exits>>
         ELSE /\ Propagate(QuantCall(path))
              /\ UNCHANGED <<files, stdout>>
quantize_int8(path, next) ==
    /\ calls' = Append(calls, QuantCall(path))
    /\ \E ok \in BOOLEAN :
         IF ok
         THEN /\ files' = WriteFile(files, QPath(path), [by |-> run, of |-> files[path].by])
              /\ stdout' = Append(stdout, Msg("Quantized", QPath(path)))
              /\ UNCHANGED raised
         ELSE /\ raised' = raised \cup {QuantCall(path)}
              /\ stdout' = Append(stdout, Msg("QuantizationSkipped", path))
              /\ UNCHANGED files
    /\ pc' = next
    /\ UNCHANGED exits

QuantizeEncoder ==
    /\ pc = "quant_encoder"
    /\ quantize_int8(encoder_path, "quant_decoder")
    /\ UNCHANGED <<run, argv, prevArgv, args, parentDir, outDir>>

QuantizeDecoder ==
    /\ pc = "quant_decoder"
    /\ quantize_int8(decoder_path, "save")
    /\ UNCHANGED <<run, argv, prevArgv, args, parentDir, outDir>>

\* processor.save_pretrained(out_dir), the two closing prints, and the end of
\* main(): nothing catches an exception of save_pretrained.
SaveTokenizer ==
    /\ pc = "save"
    /\ calls' = Append(calls, <<"save_pretrained">>)
    /\ \E ok \in BOOLEAN :
         IF ok
         THEN /\ files' = [f \in FileNames |->
                             IF f \in TokenizerFiles
                             THEN WriteFile(files, f, [by |-> run, of |-> 0])[f]
                             ELSE files[f]]
              /\ stdout' = stdout \o <<Msg("TokenizerSaved", NoFile), Msg("ExportComplete", NoFile)>>
              /\ Terminate(0)
              /\ UNCHANGED raised
         ELSE /\ Propagate(<<"save_pretrained">>)
              /\ UNCHANGED <<files, stdout>>
    /\ UNCHANGED <<run, argv, prevArgv, args, parentDir, outDir>>

Next ==
    \/ StartRun
    \/ ParseArgs
    \/ Mkdir
    \/ LoadProcessor
    \/ LoadModel
    \/ SampleInputs
    \/ EncoderRun
    \/ ExportEncoder
    \/ ExportDecoder
    \/ QuantizeEncoder
    \/ QuantizeDecoder
    \/ SaveTokenizer

Spec == Init /\ [][Next]_vars

----------------------------------------------------------------------------
\* Vocabulary of the properties.

Range(s) == {s[i] : i \in 1..Len(s)}
Called(c) == c \in Range(calls)
Returned(c) == Called(c) /\ c \notin raised
Ended == pc = "done"
ExitCode == exits[Len(exits)]
Printed(m, f) == Msg(m, f) \in Range(stdout)
WrittenNow(f) == files[f].by = run /\ run > 0
Count(c) == Cardinality({i \in 1..Len(calls) : calls[i] = c})

TypeOK ==
    /\ run \in 0..MaxRuns
    /\ argv \in ArgvQuantize
    /\ prevArgv \in ArgvQuantize \cup {"first"}
    /\ args \in {"unset", "int8"}
    /\ parentDir \in {"absent", "dir"}
    /\ outDir \in {"absent", "dir"}
    /\ \A f \in FileNames : files[f].by \in 0..MaxRuns /\ files[f].of \in 0..MaxRuns
    /\ Len(exits) \in {run, run - 1}
    /\ Ended => Len(exits) = run

\* The quantized sibling of each float32 graph file, by name.
Sibling(p) ==
    IF p = <<"encoder", ".onnx">> THEN <<"encoder", "_int8", ".onnx">>
    ELSE <<"decoder", "_int8", ".onnx">>

LoaderCalls == {<<"load_processor">>, <<"load_model">>}
ExportCalls == {<<"export_encoder">>, <<"export_decoder">>}
QuantCalls == {<<"quantize_int8", "encoder", ".onnx">>, <<"quantize_int8", "decoder", ".onnx">>}
LastCall == calls[Len(calls)]

\* The statements of main() in source order, with --quantize int8.
Order ==
    << <<"mkdir">>, <<"load_processor">>, <<"load_model">>, <<"sample_inputs">>,
       <<"encoder_run">>, <<"export_encoder">>, <<"export_decoder">>,
       <<"quantize_int8", "encoder", ".onnx">>, <<"quantize_int8", "decoder", ".onnx">>,
       <<"save_pretrained">> >>

\* The step just taken was the call c.
JustCalled(c) == Len(calls') = Len(calls) + 1 /\ calls'[Len(calls')] = c

----------------------------------------------------------------------------
\* C1 as stated: every run that ends after the loader succeeded leaves
\* encoder.onnx and decoder.onnx in the output directory.
C1_LoaderImpliesGraphs ==
    (Ended /\ Returned(<<"load_processor">>) /\ Returned(<<"load_model">>))
        => \A p \in GraphFiles : Exists(p)

\* C1 amended: every run that ends after both exports returned leaves
\* encoder.onnx and decoder.onnx, written by that run, in the output directory.
C1_ExportsImplyGraphs ==
    (Ended /\ Returned(<<"export_encoder">>) /\ Returned(<<"export_decoder">>))
        => \A p \in GraphFiles : WrittenNow(p)

C1_Witness ==
    /\ Ended
    /\ Returned(<<"export_encoder">>)
    /\ Returned(<<"export_decoder">>)
    /\ ExitCode = 0
    /\ run = 1

\* C2: a failure of quantize_int8 on either graph file is caught and reported
\* on standard output, the float32 file of this run is still there, the call
\* is made once, the run goes on through the other quantization and
\* save_pretrained, and it exits zero when nothing but quantization failed.
C2_QuantFailureNotFatal ==
    \A p \in GraphFiles :
        QuantCall(p) \in raised =>
            /\ Printed("QuantizationSkipped", p)
            /\ WrittenNow(p)
            /\ Count(QuantCall(p)) = 1
            /\ pc \in {"quant_decoder", "save", "done"}
            /\ Ended => /\ \A q \in GraphFiles : Called(QuantCall(q))
                        /\ Called(<<"save_pretrained">>)
                        /\ raised \subseteq QuantCalls => ExitCode = 0

C2_Witness ==
    /\ Ended
    /\ raised = QuantCalls
    /\ ExitCode = 0
    /\ \A p \in GraphFiles : WrittenNow(p)

\* C3 as stated: a failure of the tokenizer save is caught, a warning is
\* printed, and the process exits zero.
C3_SaveFailureRecoverable ==
    (Ended /\ <<"save_pretrained">> \in raised)
        => /\ ExitCode = 0
           /\ Printed("TokenizerSaveWarning", NoFile)

\* C4: a loader or export failure ends the process at once with a non-zero
\* exit: the failing call is the last call of the run, so after a loader
\* failure no graph file is written, after an encoder-export failure the
\* decoder is not exported, after any export failure nothing is quantized and
\* no tokenizer file is saved; the failing step leaves every file as it was.
C4_FatalState ==
    \A c \in LoaderCalls \cup ExportCalls :
        c \in raised =>
            /\ Ended
            /\ ExitCode # 0
            /\ LastCall = c
            /\ c \in LoaderCalls => \A f \in FileNames : ~WrittenNow(f)
            /\ c \in ExportCalls => \A f \in Int8Files \cup TokenizerFiles : ~WrittenNow(f)
            /\ c = <<"export_encoder">> => ~Called(<<"export_decoder">>)
            /\ c = <<"export_decoder">> => WrittenNow(encoder_path)

C4_FatalStep ==
    \A c \in LoaderCalls \cup ExportCalls :
        (JustCalled(c) /\ c \in raised') => files' = files

C4_FatalFailure == []C4_FatalState /\ [][C4_FatalStep]_vars

C4_Witness ==
    /\ Ended
    /\ <<"export_decoder">> \in raised
    /\ WrittenNow(encoder_path)
    /\ files[decoder_path].by = 1
    /\ run = 2

\* C5 as stated: a run writes <stem>_int8.onnx exactly when --quantize int8
\* is on the command line and the quantization of that file succeeded, and a
\* command line without --quantize makes no quantization call.
C5_QuantizeOnlyWhenPassed ==
    /\ \A p \in GraphFiles :
         WrittenNow(Sibling(p)) <=> (argv = "int8" /\ Returned(QuantCall(p)))
    /\ argv = "absent" => \A p \in GraphFiles : ~Called(QuantCall(p))

\* C6 as stated: a run that gets through the publisher step has written the
\* tokenizer/preprocessor files and has printed every file of the output
\* directory with its size.
C6_PublisherPrintsManifest ==
    (Ended /\ Returned(<<"save_pretrained">>))
        => /\ \A f \in TokenizerFiles : WrittenNow(f)
           /\ \A f \in FileNames : Exists(f) => Printed("FileSize", f)

\* C7 as stated: after two consecutive runs with the same arguments that both
\* exit zero, every pipeline file in the output directory holds the content
\* written by the second run.
C7_RerunOverwritesAll ==
    (Ended /\ run >= 2 /\ argv = prevArgv /\ exits[run] = 0 /\ exits[run - 1] = 0)
        => \A f \in FileNames : Exists(f) => WrittenNow(f)

\* C7 amended: after two such runs, encoder.onnx, decoder.onnx, the tokenizer
\* files and every int8 sibling whose quantization succeeded in the second run
\* hold the content written by the second run; a sibling whose quantization
\* failed in the second run is as the earlier runs left it.
C7_RerunOverwritesWritten ==
    (Ended /\ run >= 2 /\ argv = prevArgv /\ exits[run] = 0 /\ exits[run - 1] = 0)
        => /\ \A f \in GraphFiles \cup TokenizerFiles : WrittenNow(f)
           /\ \A p \in GraphFiles :
                /\ Returned(QuantCall(p)) => WrittenNow(Sibling(p))
                /\ QuantCall(p) \in raised => files[Sibling(p)].by < run

C7_Witness ==
    /\ Ended
    /\ run = 2
    /\ argv = prevArgv
    /\ exits = <<0, 0>>
    /\ QuantCall(encoder_path) \in raised
    /\ files[Sibling(encoder_path)].by = 1
    /\ WrittenNow(Sibling(decoder_path))
    /\ \A f \in GraphFiles \cup TokenizerFiles : WrittenNow(f)

\* C8: mkdir never raises, whether the directory (and its parents) is absent
\* or already there; it is the first call of a run, so once it was made the
\* directory and its parents exist, also when the run ends in a failure; and
\* no step removes the directory or a file in it.
C8_DirState ==
    /\ <<"mkdir">> \notin raised
    /\ Called(<<"mkdir">>) => /\ calls[1] = <<"mkdir">>
                              /\ outDir = "dir"
                              /\ parentDir = "dir"
    /\ (\E f \in FileNames : Exists(f)) => outDir = "dir"

C8_NothingRemoved ==
    /\ outDir = "dir" => outDir' = "dir"
    /\ parentDir = "dir" => parentDir' = "dir"
    /\ \A f \in FileNames : files[f].by # 0 => files'[f].by # 0

C8_OutputDirectory == []C8_DirState /\ [][C8_NothingRemoved]_vars

C8_Witness ==
    /\ Ended
    /\ run = 2
    /\ Called(<<"mkdir">>)
    /\ <<"load_model">> \in raised
    /\ outDir = "dir"
    /\ Exists(encoder_path)

\* C9: the calls of a run are always an initial part of the one sequence
\* mkdir, loader, sample inputs, encoder run, encoder export, decoder export,
\* quantize encoder, quantize decoder, save: no call is out of order or made
\* twice, an uncaught failure is the last call of its run, and every run
\* starts from the beginning whatever the run before it did.
C9_LinearPipeline ==
    /\ Len(calls) <= Len(Order)
    /\ \A i \in 1..Len(calls) : calls[i] = Order[i]
    /\ pc \in {"parse", "mkdir"} => calls = <<>>
    /\ (raised \ QuantCalls) # {} => Ended /\ LastCall \in raised
    /\ (Ended /\ ExitCode = 0) => calls = Order

C9_Witness ==
    /\ Ended
    /\ run = 2
    /\ exits = <<1, 0>>
    /\ calls = Order

\* C10 as stated: when a run with quantize int8 exits zero, every int8 file in
\* the output directory was produced by that run from the float32 file of the
\* same stem written by that run.
C10_NoStaleSibling ==
    (Ended /\ args = "int8" /\ ExitCode = 0)
        => \A p \in GraphFiles :
             Exists(Sibling(p)) =>
                 /\ files[Sibling(p)].by = run
                 /\ files[Sibling(p)].of = files[p].by

\* C10 amended: when a run with quantize int8 exits zero, every int8 file
\* whose quantization succeeded in that run was produced by that run from the
\* float32 file of the same stem written by that run (a sibling whose
\* quantization failed may be left over from an earlier run); and a
\* quantize_int8 step changes no file but the sibling <stem>_int8.onnx.
C10_FreshWhenQuantized ==
    (Ended /\ args = "int8" /\ ExitCode = 0)
        => \A p \in GraphFiles :
             Returned(QuantCall(p)) =>
                 /\ files[Sibling(p)].by = run
                 /\ files[Sibling(p)].of = run
                 /\ files[p] = [by |-> run, of |-> 0]

C10_QuantizeWritesSiblingOnly ==
    \A p \in GraphFiles :
        JustCalled(QuantCall(p)) =>
            \A f \in FileNames \ {Sibling(p)} : files'[f] = files[f]

C10_QuantizedSiblings == []C10_FreshWhenQuantized /\ [][C10_QuantizeWritesSiblingOnly]_vars

C10_Witness ==
    /\ Ended
    /\ run = 2
    /\ ExitCode = 0
    /\ Returned(QuantCall(encoder_path))
    /\ QuantCall(decoder_path) \in raised
    /\ files[Sibling(decoder_path)] = [by |-> 1, of |-> 1]
    /\ files[decoder_path].by = 2

====
